---- MODULE Spec2Model ----
(***************************************************************************)
(* A model of the RAG core of AI-PDF-Reader: the FAISS-backed VectorStore  *)
(* (backend/app/vector_store.py) and the RAGService that drives it         *)
(* (backend/app/rag_service.py).                                           *)
(*                                                                         *)
(* Conventions.  Internal indices are 0-based as in the Python code, so    *)
(* the entry with internal index i is index[i + 1] / chunk_metadata[i+1].  *)
(* Embedding vectors are modelled with two integer components.  A unit     *)
(* vector v/|v| is represented by the primitive integer vector of the same *)
(* direction (v divided by the gcd of its components); the inner product   *)
(* of two unit vectors a, b is then (a.b)/sqrt((a.a)(b.b)) and is kept as  *)
(* the exact fraction sgn(a.b)(a.b)^2 / ((a.a)(b.b)), its signed square,   *)
(* which orders exactly as the inner product does.                         *)
(***************************************************************************)
EXTENDS Integers, Sequences, FiniteSets, TLC

\* ---------------------------------------------------------------- bounds
MaxVectors == 4      \* vectors the index may hold
MaxBatch == 2        \* length of one add_embeddings argument list
MaxTopK == 2         \* largest top_k a search asks for
MaxSnapVectors == 2  \* vectors the index may hold where snapshots are taken

\* ------------------------------------------------------------ input sets
DocIds == {"d1", "d2"}
\* '' (and None, which Python treats alike in `if document_id`)
NoDoc == ""
\* raw (not yet normalised) embeddings handed to add_embeddings
EmbVectors == {<<2, 0>>, <<1, 1>>}
\* raw query embeddings handed to search_similar
QueryVectors == {<<1, 0>>, <<0, 2>>}
ZeroVector == <<0, 0>>
TopKs == 0..MaxTopK
\* a chunk_data dict without 'chunk_id'
NoChunkId == <<"none", 0>>

\* the coroutines the event loop may hold at a time
MaxTasks == 2
TaskIds == 1..MaxTasks
\* a slot of the event loop that holds no coroutine
NoTask == [kind |-> "none", pc |-> "free", doc |-> NoDoc, pdf_path |-> "",
           query |-> "", k |-> 0, model_ok |-> TRUE,
           search_results |-> <<>>, sources |-> <<>>, deleted |-> {}]

\* the callers of the rate limiter and the endpoints they call
Users == {"u1", "u2"}
Endpoints == {"default", "upload"}
\* an empty dict
NoEntries == [key \in {} |-> 0]
\* no RateLimiter constructed yet
NoLimits == [max_requests |-> 0, window_seconds |-> 0, block_duration_seconds |-> 0]
NoVerdict == [user_id |-> "", endpoint |-> "", at |-> 0, raised |-> FALSE,
              reason |-> "none", remaining |-> 0, recorded |-> FALSE,
              in_block |-> FALSE]

VARIABLES
    index,            \* self.index: the vectors of the FAISS IndexFlatIP, in add order
    chunk_metadata,   \* self.chunk_metadata: one dict per added chunk
    document_chunks,  \* self.document_chunks: document_id -> list of internal indices
    embedding_dim,    \* self.embedding_dim
    ret,              \* the last call: its name, arguments, return value, raised or not
    disk,             \* the two files of a snapshot: <path>.faiss and <path>.meta
    saved,            \* the index and metadata in memory when save last succeeded
    chunk_rows,       \* the rows of the database table document_chunks
    next_uuid,        \* how many chunk ids uuid4 has handed out
    tasks,            \* the request coroutines of the event loop, each with its position
    limits,           \* RateLimiter: max_requests, window_seconds, block_duration_seconds
    requests,         \* RateLimiter.requests: "user:endpoint" -> list of timestamps
    blocked_until,    \* RateLimiter.blocked_until: user_id -> timestamp
    now,              \* time.time()
    accepted,         \* the times of the check_rate_limit calls that returned, per user and endpoint
    blocks,           \* per user, when the last block imposed on them expires
    verdict           \* the last check_rate_limit call and how it ended

store == <<index, chunk_metadata, document_chunks, embedding_dim>>
files == <<disk, saved>>
database == <<chunk_rows, next_uuid>>
loop == <<tasks>>
limiter == <<limits, requests, blocked_until, now, accepted, blocks, verdict>>
\* what the calls of the RAG core leave alone
outside == <<loop, limiter>>
vars == <<index, chunk_metadata, document_chunks, embedding_dim, ret,
          disk, saved, chunk_rows, next_uuid,
          tasks, limits, requests, blocked_until, now, accepted, blocks, verdict>>

\* the dimension get_vector_store() constructs the store with
EmbeddingDim == 384

\* ------------------------------------------------------------ arithmetic
Abs(n) == IF n < 0 THEN -n ELSE n
Min(a, b) == IF a <= b THEN a ELSE b

RECURSIVE Gcd(_, _)
Gcd(a, b) == IF b = 0 THEN a ELSE Gcd(b, a % b)

Dot(a, b) == a[1] * b[1] + a[2] * b[2]

\* faiss.normalize_L2: v / |v|, the zero vector is left as it is
Normalize(v) ==
    IF v = ZeroVector THEN v
    ELSE LET g == Gcd(Abs(v[1]), Abs(v[2]))
         IN  <<v[1] \div g, v[2] \div g>>

\* inner product of the unit vectors a and q (IndexFlatIP's distance)
InnerProduct(a, q) ==
    LET d == Dot(a, q)
    IN  IF d = 0 THEN [num |-> 0, den |-> 1]
        ELSE [num |-> (IF d < 0 THEN -1 ELSE 1) * d * d, den |-> Dot(a, a) * Dot(q, q)]

ScoreLess(s, t) == s.num * t.den < t.num * s.den
ScoreEq(s, t) == s.num * t.den = t.num * s.den

\* --------------------------------------------------------- add_embeddings
\* an off-by-one start: the position of the last vector instead of the next free one
StartIdxLast(idx) == IF Len(idx) = 0 THEN 0 ELSE Len(idx) - 1

\* start_idx = self.index.ntotal
StartIdx(idx) == Len(idx)

\* self.index.add(vectors), vectors normalised first
IndexAdd(idx, embeddings) ==
    idx \o [i \in 1..Len(embeddings) |-> Normalize(embeddings[i])]

\* self.chunk_metadata.append(data) for each data
AppendMetadata(meta, chunk_data) ==
    meta \o [i \in 1..Len(chunk_data) |->
                [chunk_id |-> chunk_data[i].chunk_id,
                 document_id |-> chunk_data[i].document_id,
                 chunk_index |-> chunk_data[i].chunk_index,
                 deleted |-> FALSE]]

\* the loop's indices.append(idx)
AssignedIndices(start_idx, n) == [i \in 1..n |-> start_idx + i - 1]

\* the loop's document_chunks bookkeeping, for chunk_data[i..]
RECURSIVE TrackChunks(_, _, _, _)
TrackChunks(dc, chunk_data, start_idx, i) ==
    IF i > Len(chunk_data) THEN dc
    ELSE LET doc_id == chunk_data[i].document_id
             idx == start_idx + i - 1
             dc1 == IF doc_id = NoDoc THEN dc
                    ELSE IF doc_id \in DOMAIN dc
                         THEN [dc EXCEPT ![doc_id] = Append(@, idx)]
                         ELSE [d \in DOMAIN dc \cup {doc_id} |->
                                  IF d = doc_id THEN <<idx>> ELSE dc[d]]
         IN  TrackChunks(dc1, chunk_data, start_idx, i + 1)

\* what the last call was given and what it gave back.  Of a result dict
\* `keys` holds the keys it carries; `trace`, `encoded` and `prompts` record
\* what the call did on the way: the steps it entered, the texts it handed
\* to the embedding model, the prompts it handed to the generator.
NoRet == [op |-> "none", doc |-> NoDoc, q |-> ZeroVector, k |-> 0,
          ne |-> 0, nd |-> 0, out |-> <<>>, count |-> 0, rows |-> 0, err |-> FALSE,
          texts |-> <<>>, encoded |-> <<>>, model_ok |-> TRUE,
          keys |-> {}, trace |-> <<>>,
          has_context |-> FALSE, sources |-> <<>>, prompts |-> <<>>,
          response |-> <<>>, success |-> FALSE, db_ok |-> TRUE, gen_ok |-> TRUE,
          cfg |-> [chunk_size |-> 0, chunk_overlap |-> 0, min_chunk_size |-> 0]]

AddEmbeddings(embeddings, chunk_data) ==
    LET r == [NoRet EXCEPT !.op = "add", !.ne = Len(embeddings), !.nd = Len(chunk_data)]
    IN  IF embeddings = <<>> \/ chunk_data = <<>>
        THEN \* return []
             /\ ret' = r
             /\ UNCHANGED store
        ELSE IF Len(embeddings) # Len(chunk_data)
        THEN \* raise ValueError
             /\ ret' = [r EXCEPT !.err = TRUE]
             /\ UNCHANGED store
        ELSE LET start_idx == StartIdx(index)
             IN  /\ index' = IndexAdd(index, embeddings)
                 /\ chunk_metadata' = AppendMetadata(chunk_metadata, chunk_data)
                 /\ document_chunks' = TrackChunks(document_chunks, chunk_data, start_idx, 1)
                 /\ ret' = [r EXCEPT !.out = AssignedIndices(start_idx, Len(chunk_data))]
                 /\ UNCHANGED embedding_dim

\* --------------------------------------------------------- search_similar
\* no over-fetch for a document-scoped search
SearchKNoOverFetch(top_k, document_id, ntotal) == Min(top_k, ntotal)

\* search_k = top_k * 3 if document_id else top_k; search_k = min(search_k, ntotal)
SearchK(top_k, document_id, ntotal) ==
    Min(IF document_id # NoDoc THEN top_k * 3 ELSE top_k, ntotal)

\* hits in insertion order, whatever their inner product
BeforeByPosition(idx, q, p, r) == p < r

\* p comes before r in FAISS's result: larger inner product first, and among
\* equal inner products the smaller id first
Before(idx, q, p, r) ==
    LET sp == InnerProduct(idx[p + 1], q)
        sr == InnerProduct(idx[r + 1], q)
    IN  ScoreLess(sr, sp) \/ (ScoreEq(sp, sr) /\ p < r)

\* self.index.search(query_vector, search_k): the search_k best (distance, id)
IndexSearch(idx, q, search_k) ==
    LET ids == 0..(Len(idx) - 1)
        rank(p) == Cardinality({r \in ids : Before(idx, q, r, p)})
    IN  [i \in 1..search_k |->
            LET p == CHOOSE p \in ids : rank(p) = i - 1
            IN  [dist |-> InnerProduct(idx[p + 1], q), idx |-> p]]

\* SearchResult(...) for the hit at internal index hit.idx; pos records that index
MakeResult(meta, hit) ==
    LET metadata == meta[hit.idx + 1]
    IN  [pos |-> hit.idx,
         chunk_id |-> IF metadata.chunk_id = NoChunkId
                      THEN <<"chunk", hit.idx>> ELSE metadata.chunk_id,
         document_id |-> metadata.document_id,
         chunk_index |-> metadata.chunk_index,
         similarity_score |-> hit.dist]

\* the hit is skipped by one of the loop's two `continue`s
Skipped(meta, hit, document_id) ==
    \/ hit.idx < 0 \/ hit.idx >= Len(meta)
    \/ (document_id # NoDoc /\ meta[hit.idx + 1].document_id # document_id)

\* the loop never leaves early
EnoughNever(results, top_k) == FALSE

\* the loop leaves once it has enough results
Enough(results, top_k) == Len(results) >= top_k

\* the result-building loop over zip(distances[0], indices[0]), from hit i on
RECURSIVE BuildResults(_, _, _, _, _, _)
BuildResults(meta, hits, i, results, top_k, document_id) ==
    IF i > Len(hits) THEN results
    ELSE IF Skipped(meta, hits[i], document_id)
         THEN BuildResults(meta, hits, i + 1, results, top_k, document_id)
         ELSE LET results1 == Append(results, MakeResult(meta, hits[i]))
              IN  IF Enough(results1, top_k) THEN results1
                  ELSE BuildResults(meta, hits, i + 1, results1, top_k, document_id)

\* search_similar on a store holding idx and meta.  A search_k that is not
\* positive makes index.search raise, and so does a query whose number of
\* components is not the index's; the except clause turns both into [].
SearchSimilar(idx, meta, query_embedding, top_k, document_id) ==
    IF Len(idx) = 0 THEN <<>>
    ELSE IF Len(query_embedding) # Len(ZeroVector) THEN <<>>
    ELSE LET query_vector == Normalize(query_embedding)
             search_k == SearchK(top_k, document_id, Len(idx))
         IN  IF search_k <= 0 THEN <<>>
             ELSE BuildResults(meta, IndexSearch(idx, query_vector, search_k),
                               1, <<>>, top_k, document_id)

Search(query_embedding, top_k, document_id) ==
    /\ ret' = [NoRet EXCEPT !.op = "search", !.q = query_embedding, !.k = top_k,
                            !.doc = document_id,
                            !.out = SearchSimilar(index, chunk_metadata,
                                                  query_embedding, top_k, document_id)]
    /\ UNCHANGED store

\* -------------------------------------------------------- remove_document
\* only the first tracked entry is marked
MarkDeletedFirst(meta, indices) ==
    [i \in 1..Len(meta) |->
        IF Len(indices) > 0 /\ indices[1] = i - 1
        THEN [meta[i] EXCEPT !.deleted = TRUE]
        ELSE meta[i]]

\* self.chunk_metadata[idx]['deleted'] = True for each tracked idx
MarkDeleted(meta, indices) ==
    [i \in 1..Len(meta) |->
        IF \E j \in 1..Len(indices) : indices[j] = i - 1 /\ indices[j] < Len(meta)
        THEN [meta[i] EXCEPT !.deleted = TRUE]
        ELSE meta[i]]

\* a remove_document that leaves the tracking as it is
KeepTracked(dc, document_id) == dc

\* del self.document_chunks[document_id]
Untrack(dc, document_id) == [d \in DOMAIN dc \ {document_id} |-> dc[d]]

RemoveDocument(document_id) ==
    LET r == [NoRet EXCEPT !.op = "remove", !.doc = document_id]
    IN  IF document_id \notin DOMAIN document_chunks
        THEN \* return 0
             /\ ret' = r
             /\ UNCHANGED store
        ELSE LET indices == document_chunks[document_id]
             IN  /\ chunk_metadata' = MarkDeleted(chunk_metadata, indices)
                 /\ document_chunks' = Untrack(document_chunks, document_id)
                 /\ ret' = [r EXCEPT !.count = Len(indices)]
                 /\ UNCHANGED <<index, embedding_dim>>

\* ------------------------------------------------------------ save, load
\* faiss.write_index: the file holds the vector count and the vectors
WriteIndex(idx) == [present |-> TRUE, ntotal |-> Len(idx), xb |-> idx]

\* faiss.read_index: an index of the file's ntotal vectors
ReadIndex(file) == SubSeq(file.xb, 1, file.ntotal)

\* pickle.dump of the dict save builds
DumpMeta(meta, dc, dim) ==
    [state |-> "ok", chunk_metadata |-> meta, document_chunks |-> dc, embedding_dim |-> dim]

\* the unpickled chunk_metadata, with the tombstones lost
LoadChunkMetadataLive(file) ==
    [i \in 1..Len(file.chunk_metadata) |-> [file.chunk_metadata[i] EXCEPT !.deleted = FALSE]]

\* data['chunk_metadata'] of the unpickled dict
LoadChunkMetadata(file) == file.chunk_metadata

NoIndexFile == [present |-> FALSE, ntotal |-> 0, xb |-> <<>>]
NoMetaFile == [state |-> "absent", chunk_metadata |-> <<>>, document_chunks |-> <<>>,
               embedding_dim |-> 0]
\* a .meta file that open(.., 'wb') truncated and pickle.dump did not complete
CorruptMetaFile == [NoMetaFile EXCEPT !.state = "corrupt"]

\* save(path), both files written
Save ==
    /\ disk' = [faiss |-> WriteIndex(index),
                meta |-> DumpMeta(chunk_metadata, document_chunks, embedding_dim)]
    /\ saved' = [index |-> index, chunk_metadata |-> chunk_metadata]
    /\ ret' = [NoRet EXCEPT !.op = "save"]
    /\ UNCHANGED store

\* save(path) when writing <path>.meta fails after <path>.faiss was written: the
\* exception is re-raised.  If open() failed the old .meta file is still there
\* (truncated = FALSE); if pickle.dump failed the file is left incomplete.
SaveFails(truncated) ==
    /\ disk' = [faiss |-> WriteIndex(index),
                meta |-> IF truncated THEN CorruptMetaFile ELSE disk.meta]
    /\ ret' = [NoRet EXCEPT !.op = "save", !.err = TRUE]
    /\ UNCHANGED <<store, saved>>

\* load(path)
Load ==
    LET r == [NoRet EXCEPT !.op = "load"]
    IN  IF ~disk.faiss.present
        THEN \* faiss.read_index raises, nothing was assigned
             /\ ret' = [r EXCEPT !.err = TRUE]
             /\ UNCHANGED <<store, files>>
        ELSE IF disk.meta.state # "ok"
        THEN \* self.index is replaced, then open() or pickle.load raises
             /\ index' = ReadIndex(disk.faiss)
             /\ ret' = [r EXCEPT !.err = TRUE]
             /\ UNCHANGED <<chunk_metadata, document_chunks, embedding_dim, files>>
        ELSE /\ index' = ReadIndex(disk.faiss)
             /\ chunk_metadata' = LoadChunkMetadata(disk.meta)
             /\ document_chunks' = disk.meta.document_chunks
             /\ embedding_dim' = disk.meta.embedding_dim
             /\ ret' = r
             /\ UNCHANGED files

\* ------------------------------------------------------------ the store
\* the chunk_data dicts add_embeddings is called with: each names its document
ChunkData == [chunk_id : {NoChunkId}, document_id : DocIds, chunk_index : {0}]

Init ==
    /\ index = <<>>
    /\ chunk_metadata = <<>>
    /\ document_chunks = <<>>
    /\ embedding_dim = EmbeddingDim
    /\ ret = NoRet
    /\ disk = [faiss |-> NoIndexFile, meta |-> NoMetaFile]
    /\ saved = [index |-> <<>>, chunk_metadata |-> <<>>]
    /\ chunk_rows = <<>>
    /\ next_uuid = 0
    /\ tasks = [t \in TaskIds |-> NoTask]
    /\ limits = NoLimits
    /\ requests = NoEntries
    /\ blocked_until = NoEntries
    /\ now = 0
    /\ accepted = [user_id \in Users, endpoint \in Endpoints |-> <<>>]
    /\ blocks = [user_id \in Users |-> 0]
    /\ verdict = NoVerdict

\* The caller is sequential: it makes a call when it holds no pending result
Idle == ret = NoRet

\* add_embeddings on a store that may grow to max vectors (and max metadata
\* records: after a failed load the two need not be as many)
AddUpTo(max) ==
    /\ Idle
    /\ \E ne \in 0..MaxBatch, nd \in 0..MaxBatch :
        \E embeddings \in [1..ne -> EmbVectors], chunk_data \in [1..nd -> ChunkData] :
            /\ Len(index) + ne <= max
            /\ Len(chunk_metadata) + nd <= max
            /\ AddEmbeddings(embeddings, chunk_data)
    /\ UNCHANGED <<files, database, outside>>

DoAdd == AddUpTo(MaxVectors)

DoSearch ==
    /\ Idle
    /\ \E q \in QueryVectors, k \in TopKs, d \in DocIds \cup {NoDoc} : Search(q, k, d)
    /\ UNCHANGED <<files, database, outside>>

DoRemove ==
    /\ Idle
    /\ \E d \in DocIds : RemoveDocument(d)
    /\ UNCHANGED <<files, database, outside>>

\* the caller takes the result; the store is as the call left it
Return ==
    /\ ~Idle
    /\ ret' = NoRet
    /\ UNCHANGED <<store, files, database, outside>>

Next == DoAdd \/ DoSearch \/ DoRemove \/ Return

Spec == Init /\ [][Next]_vars

\* ------------------------------------------- the store with save and load
DoAddSmall == AddUpTo(MaxSnapVectors)

DoSave == Idle /\ Save /\ UNCHANGED <<database, outside>>

DoLoad == Idle /\ Load /\ UNCHANGED <<database, outside>>

NextPersist == DoAddSmall \/ DoRemove \/ DoSearch \/ DoSave \/ DoLoad \/ Return

SpecPersist == Init /\ [][NextPersist]_vars

\* ... and with saves that fail while writing the metadata file
DoSaveFails == Idle /\ (\E truncated \in BOOLEAN : SaveFails(truncated)) /\ UNCHANGED <<database, outside>>

NextTorn == NextPersist \/ DoSaveFails

SpecTorn == Init /\ [][NextTorn]_vars

\* --------------------------------------------------- the store's get_stats
\* VectorStore.get_stats
GetStats ==
    [total_vectors |-> Len(index),
     embedding_dim |-> embedding_dim,
     num_documents |-> Cardinality(DOMAIN document_chunks),
     chunks_per_document |-> [d \in DOMAIN document_chunks |-> Len(document_chunks[d])]]

DoGetStats ==
    /\ Idle
    /\ ret' = [NoRet EXCEPT !.op = "stats", !.out = <<GetStats>>]
    /\ UNCHANGED <<store, files, database, outside>>

NextStats == DoAdd \/ DoRemove \/ DoGetStats \/ Return

SpecStats == Init /\ [][NextStats]_vars

\* ------------------------------------------------------------ RAGService
\* the texts of chunks and queries; " " stands for any whitespace-only text
Texts == {"alpha", "beta"}
QueryTexts == Texts \cup {" "}
PdfPaths == {"a.pdf", "b.pdf", "blank.pdf", "missing.pdf"}

\* `not text or not text.strip()`
IsBlank(text) == text \in {"", " "}

\* self.model.encode: the vector the SentenceTransformer gives a text
Encode(text) == IF text = "alpha" THEN <<2, 0>> ELSE <<1, 1>>

\* EmbeddingService.generate_embedding; model_ok = FALSE is a call in which
\* self.model.encode raises
GenerateEmbedding(text, model_ok) ==
    IF IsBlank(text) THEN ZeroVector
    ELSE IF ~model_ok THEN ZeroVector
    ELSE Normalize(Encode(text))

\* the texts generate_embedding hands to self.model.encode
EncodedBySingle(text) == IF IsBlank(text) THEN <<>> ELSE <<text>>

\* the positions (0-based) of all texts: a filter that keeps everything
RECURSIVE AllIndices(_, _)
AllIndices(texts, i) ==
    IF i > Len(texts) THEN <<>> ELSE <<i - 1>> \o AllIndices(texts, i + 1)

\* the positions (0-based) of the non-empty texts, in order
RECURSIVE NonEmptyIndices(_, _)
NonEmptyIndices(texts, i) ==
    IF i > Len(texts) THEN <<>>
    ELSE IF IsBlank(texts[i]) THEN NonEmptyIndices(texts, i + 1)
         ELSE <<i - 1>> \o NonEmptyIndices(texts, i + 1)

\* non_empty_texts, the list generate_embeddings_batch hands to self.model.encode
NonEmptyTexts(texts) ==
    LET non_empty_indices == NonEmptyIndices(texts, 1)
    IN  [j \in 1..Len(non_empty_indices) |-> texts[non_empty_indices[j] + 1]]

\* the texts generate_embeddings_batch hands to self.model.encode: none when
\* the list is empty or holds blank texts only
EncodedByBatch(texts) == NonEmptyTexts(texts)

\* an embedding written next to the ones before it, whatever its text's position
ResultIndexPacked(non_empty_indices, j) == j - 1

\* `result[idx] = embedding`: the position the j-th embedding is written to
ResultIndex(non_empty_indices, j) == non_empty_indices[j]

\* an except clause that gives up on the whole batch
NoVectors(texts) == <<>>

\* `[[0.0] * self.embedding_dim] * len(texts)`
ZeroVectors(texts) == [i \in 1..Len(texts) |-> ZeroVector]

\* EmbeddingService.generate_embeddings_batch
GenerateEmbeddingsBatch(texts, model_ok) ==
    LET non_empty_indices == NonEmptyIndices(texts, 1)
        non_empty_texts == NonEmptyTexts(texts)
        embeddings == [j \in 1..Len(non_empty_texts) |->
                          Normalize(Encode(non_empty_texts[j]))]
    IN  IF texts = <<>> THEN <<>>
        ELSE IF non_empty_texts = <<>> THEN [i \in 1..Len(texts) |-> ZeroVector]
        ELSE IF ~model_ok THEN ZeroVectors(texts)
        ELSE [i \in 1..Len(texts) |->
                IF \E j \in 1..Len(embeddings) :
                      ResultIndex(non_empty_indices, j) = i - 1
                THEN embeddings[CHOOSE j \in 1..Len(embeddings) :
                                    ResultIndex(non_empty_indices, j) = i - 1]
                ELSE ZeroVector]

\* the chunk texts chunking_service.chunk_document extracts from each file
PdfChunkTexts(pdf_path) ==
    IF pdf_path = "a.pdf" THEN <<"alpha", "beta">>
    ELSE IF pdf_path = "b.pdf" THEN <<"beta">>
    ELSE <<>>

\* fitz.open fails on this path and chunk_document re-raises
Unreadable(pdf_path) == pdf_path = "missing.pdf"

\* chunk_document: the DocumentChunks of the file, chunk_index counting from 0
ChunkDocument(pdf_path, document_id) ==
    LET texts == PdfChunkTexts(pdf_path)
    IN  [i \in 1..Len(texts) |->
            [text |-> texts[i], chunk_index |-> i - 1, document_id |-> document_id]]

\* db.store_chunk for the first n chunks: the i-th call gets chunk id uuid + i
StoreChunks(rows, chunks, uuid, n) ==
    rows \o [i \in 1..n |->
                [id |-> <<"uuid", uuid + i>>,
                 document_id |-> chunks[i].document_id,
                 chunk_index |-> chunks[i].chunk_index]]

\* the chunk_metadata list process_document hands to add_embeddings
ChunkMetadataOf(chunks, uuid) ==
    [i \in 1..Len(chunks) |->
        [chunk_id |-> <<"uuid", uuid + i>>,
         document_id |-> chunks[i].document_id,
         chunk_index |-> chunks[i].chunk_index]]

\* the steps of process_document, as its comments number them
Steps == <<"chunking", "embedding", "storing", "indexing">>

\* the keys of the dicts process_document returns
ProcessedKeys == {"success", "document_id", "chunks_created", "embeddings_generated",
                  "chunks_stored", "vectors_added", "elapsed_seconds"}
NoChunksKeys == {"success", "error", "chunks_created"}
ProcessFailedKeys == {"success", "error", "document_id"}

\* RAGService.process_document.  model_ok = FALSE: the embedding model raises;
\* stored: the number of db.store_chunk calls that go through, the next one
\* raising when there are more chunks than that.
ProcessDocument(document_id, pdf_path, model_ok, stored) ==
    LET r == [NoRet EXCEPT !.op = "process", !.doc = document_id, !.model_ok = model_ok]
        chunks == ChunkDocument(pdf_path, document_id)
    IN  IF Unreadable(pdf_path)
        THEN \* chunk_document raises: the except clause
             /\ ret' = [r EXCEPT !.err = TRUE, !.keys = ProcessFailedKeys,
                                 !.trace = <<"chunking", "failed">>]
             /\ UNCHANGED <<store, database>>
        ELSE IF chunks = <<>>
        THEN \* 'No chunks created from document'
             /\ ret' = [r EXCEPT !.err = TRUE, !.keys = NoChunksKeys,
                                 !.trace = <<"chunking", "failed">>]
             /\ UNCHANGED <<store, database>>
        ELSE LET chunk_texts == [i \in 1..Len(chunks) |-> chunks[i].text]
                 embeddings == GenerateEmbeddingsBatch(chunk_texts, model_ok)
                 chunk_data == ChunkMetadataOf(chunks, next_uuid)
                 start_idx == StartIdx(index)
             IN  IF stored < Len(chunks)
                 THEN \* a store_chunk call raises: the rows before it stay,
                      \* the except clause returns
                      /\ chunk_rows' = StoreChunks(chunk_rows, chunks, next_uuid, stored)
                      /\ next_uuid' = next_uuid + stored
                      /\ ret' = [r EXCEPT !.err = TRUE, !.keys = ProcessFailedKeys,
                                          !.count = Len(chunks), !.rows = stored,
                                          !.trace = <<"chunking", "embedding",
                                                      "storing", "failed">>]
                      /\ UNCHANGED store
                 ELSE /\ chunk_rows' = StoreChunks(chunk_rows, chunks, next_uuid, Len(chunks))
                      /\ next_uuid' = next_uuid + Len(chunks)
                      /\ index' = IndexAdd(index, embeddings)
                      /\ chunk_metadata' = AppendMetadata(chunk_metadata, chunk_data)
                      /\ document_chunks' = TrackChunks(document_chunks, chunk_data, start_idx, 1)
                      /\ ret' = [r EXCEPT !.count = Len(chunks), !.rows = Len(chunks),
                                          !.out = AssignedIndices(start_idx, Len(chunk_data)),
                                          !.keys = ProcessedKeys,
                                          !.trace = Steps \o <<"indexed">>]
                      /\ UNCHANGED embedding_dim

\* RAGService.search_documents
SearchDocuments(query, top_k, document_id, model_ok) ==
    /\ Search(GenerateEmbedding(query, model_ok), top_k, document_id)
    /\ UNCHANGED database

\* a delete that removes the document's first row only
DeleteFirstChunk(rows, document_id) ==
    IF \E i \in 1..Len(rows) : rows[i].document_id = document_id
    THEN LET first == CHOOSE i \in 1..Len(rows) :
                         /\ rows[i].document_id = document_id
                         /\ \A j \in 1..(i - 1) : rows[j].document_id # document_id
         IN  SubSeq(rows, 1, first - 1) \o SubSeq(rows, first + 1, Len(rows))
    ELSE rows

\* db.delete_chunks_by_document: the rows left
DeleteChunks(rows, document_id) ==
    SelectSeq(rows, LAMBDA row : row.document_id # document_id)

\* the keys of the dicts delete_document_from_rag returns
DeletedKeys == {"success", "document_id", "chunks_deleted", "vectors_removed"}
DeleteFailedKeys == {"success", "error"}

\* RAGService.delete_document_from_rag.  db_ok = FALSE: the database raises
\* in delete_chunks_by_document and the except clause returns.
DeleteDocumentFromRag(document_id, db_ok) ==
    LET r == [NoRet EXCEPT !.op = "delete", !.doc = document_id, !.db_ok = db_ok]
    IN  IF ~db_ok
        THEN /\ ret' = [r EXCEPT !.err = TRUE, !.keys = DeleteFailedKeys]
             /\ UNCHANGED <<store, database>>
        ELSE /\ chunk_rows' = DeleteChunks(chunk_rows, document_id)
             /\ UNCHANGED next_uuid
             /\ IF document_id \notin DOMAIN document_chunks
                THEN /\ ret' = [r EXCEPT !.rows = Len(chunk_rows) - Len(chunk_rows'),
                                         !.keys = DeletedKeys]
                     /\ UNCHANGED store
                ELSE LET indices == document_chunks[document_id]
                     IN  /\ chunk_metadata' = MarkDeleted(chunk_metadata, indices)
                         /\ document_chunks' = Untrack(document_chunks, document_id)
                         /\ ret' = [r EXCEPT !.rows = Len(chunk_rows) - Len(chunk_rows'),
                                             !.count = Len(indices),
                                             !.keys = DeletedKeys]
                         /\ UNCHANGED <<index, embedding_dim>>

\* process_document runs in which every store_chunk call goes through and the
\* embedding model does as model_oks allows
ProcessWith(model_oks) ==
    /\ Idle
    /\ \E d \in DocIds, pdf_path \in PdfPaths, model_ok \in model_oks :
          /\ Len(index) + Len(PdfChunkTexts(pdf_path)) <= MaxVectors
          /\ next_uuid + Len(PdfChunkTexts(pdf_path)) <= MaxVectors
          /\ ProcessDocument(d, pdf_path, model_ok, Len(PdfChunkTexts(pdf_path)))
    /\ UNCHANGED <<files, outside>>

DoProcess == ProcessWith({TRUE})

DoSearchDocuments ==
    /\ Idle
    /\ \E query \in QueryTexts, k \in TopKs, d \in DocIds \cup {NoDoc},
          model_ok \in BOOLEAN :
          SearchDocuments(query, k, d, model_ok)
    /\ UNCHANGED <<files, outside>>

DoDelete ==
    /\ Idle
    /\ \E d \in DocIds, db_ok \in BOOLEAN : DeleteDocumentFromRag(d, db_ok)
    /\ UNCHANGED <<files, outside>>

NextIngest == DoProcess \/ DoSearchDocuments \/ DoDelete \/ Return

SpecIngest == Init /\ [][NextIngest]_vars

\* ... and, without the searches, with runs of process_document in which the
\* embedding model or a db.store_chunk call raises
DoProcessModelFails == ProcessWith({FALSE})

DoProcessStoreFails ==
    /\ Idle
    /\ \E d \in DocIds, pdf_path \in PdfPaths, model_ok \in BOOLEAN :
          /\ next_uuid + Len(PdfChunkTexts(pdf_path)) <= MaxVectors
          /\ \E stored \in 0..(Len(PdfChunkTexts(pdf_path)) - 1) :
                ProcessDocument(d, pdf_path, model_ok, stored)
    /\ UNCHANGED <<files, outside>>

NextFaults == DoProcess \/ DoProcessModelFails \/ DoProcessStoreFails \/ DoDelete \/ Return

SpecFaults == Init /\ [][NextFaults]_vars

\* ------------------------------------------------------ EmbeddingService
MaxTexts == 3

\* the sequences over S of at most n elements
SeqsUpTo(S, n) == UNION {[1..m -> S] : m \in 0..n}

\* the texts the embedding service is given: blank ones among them
EmbedTexts == Texts \cup {"", " "}

\* a call of generate_embedding
DoGenerateEmbedding ==
    /\ Idle
    /\ \E text \in EmbedTexts, model_ok \in BOOLEAN :
          ret' = [NoRet EXCEPT !.op = "embed", !.texts = <<text>>, !.model_ok = model_ok,
                               !.encoded = EncodedBySingle(text),
                               !.out = <<GenerateEmbedding(text, model_ok)>>]
    /\ UNCHANGED <<store, files, database, outside>>

\* a call of generate_embeddings_batch
DoGenerateEmbeddingsBatch ==
    /\ Idle
    /\ \E texts \in SeqsUpTo(EmbedTexts, MaxTexts), model_ok \in BOOLEAN :
          ret' = [NoRet EXCEPT !.op = "embed_batch", !.texts = texts, !.model_ok = model_ok,
                               !.encoded = EncodedByBatch(texts),
                               !.out = GenerateEmbeddingsBatch(texts, model_ok)]
    /\ UNCHANGED <<store, files, database, outside>>

\* the embedding service called directly and by process_document
NextEmbed ==
    \/ DoGenerateEmbedding
    \/ DoGenerateEmbeddingsBatch
    \/ DoProcess
    \/ DoProcessModelFails
    \/ Return

SpecEmbed == Init /\ [][NextEmbed]_vars

\* ------------------------------------------- RAGService.generate_rag_response
\* a source list that cites the best hit only
SourcesOfFirst(search_results) ==
    IF search_results = <<>> THEN <<>>
    ELSE <<[document_id |-> search_results[1].document_id,
            chunk_index |-> search_results[1].chunk_index]>>

\* the `sources` list: one dict per search result, in the results' order.
\* chunk_index stands for the page and the text excerpt the dict carries.
Sources(search_results) ==
    [i \in 1..Len(search_results) |->
        [document_id |-> search_results[i].document_id,
         chunk_index |-> search_results[i].chunk_index]]

\* the keys of the dicts generate_rag_response returns
NoContextKeys == {"response", "sources", "has_context"}
ContextKeys == {"response", "sources", "has_context", "num_sources"}
RagFailedKeys == {"response", "sources", "has_context", "error"}

\* the response text: the generator's content, or the except clause's
\* f"Sorry, I encountered an error: {str(e)}"
Content == <<"content">>
SorryWithError == <<"Sorry, I encountered an error: ", "str(e)">>

\* generate_rag_response's result on the search_results it found.
\* gen_ok = FALSE: llm_provider.generate_text raises.
RagResultOf(search_results, query, document_id, top_k, model_ok, gen_ok) ==
    LET r == [NoRet EXCEPT !.op = "rag", !.doc = document_id, !.k = top_k,
                           !.texts = <<query>>, !.model_ok = model_ok,
                           !.gen_ok = gen_ok, !.out = search_results]
    IN  IF search_results = <<>>
        THEN IF gen_ok
             THEN [r EXCEPT !.prompts = <<"no_context">>, !.response = Content,
                            !.keys = NoContextKeys]
             ELSE [r EXCEPT !.prompts = <<"no_context">>, !.response = SorryWithError,
                            !.keys = RagFailedKeys]
        ELSE IF gen_ok
             THEN [r EXCEPT !.prompts = <<"context">>, !.response = Content,
                            !.sources = Sources(search_results),
                            !.has_context = TRUE, !.keys = ContextKeys]
             ELSE [r EXCEPT !.prompts = <<"context">>, !.response = SorryWithError,
                            !.keys = RagFailedKeys]

\* generate_rag_response run in one piece: the search and, on its results,
\* the rest
RagResult(query, document_id, top_k, model_ok, gen_ok) ==
    RagResultOf(SearchSimilar(index, chunk_metadata, GenerateEmbedding(query, model_ok),
                              top_k, document_id),
                query, document_id, top_k, model_ok, gen_ok)

\* RAGService.generate_rag_response
GenerateRagResponse(query, document_id, top_k, model_ok, gen_ok) ==
    /\ ret' = RagResult(query, document_id, top_k, model_ok, gen_ok)
    /\ UNCHANGED <<store, database>>

\* chat_endpoint's top_k
ChatTopK == 5
ChatKeys == {"response", "sources", "has_context", "num_sources", "success", "timestamp"}

\* chat_endpoint with a document_id: the dict built from rag_result
ChatEndpoint(message, document_id, model_ok, gen_ok) ==
    LET rag_result == RagResult(message, document_id, ChatTopK, model_ok, gen_ok)
    IN  /\ ret' = [rag_result EXCEPT !.op = "chat", !.keys = ChatKeys, !.success = TRUE]
        /\ UNCHANGED <<store, database>>

DoGenerateRagResponse ==
    /\ Idle
    /\ \E query \in QueryTexts, k \in TopKs, d \in DocIds \cup {NoDoc},
          model_ok \in BOOLEAN, gen_ok \in BOOLEAN :
          GenerateRagResponse(query, d, k, model_ok, gen_ok)
    /\ UNCHANGED <<files, outside>>

DoChat ==
    /\ Idle
    /\ \E message \in QueryTexts, d \in DocIds, model_ok \in BOOLEAN, gen_ok \in BOOLEAN :
          ChatEndpoint(message, d, model_ok, gen_ok)
    /\ UNCHANGED <<files, outside>>

NextRag == DoProcess \/ DoDelete \/ DoGenerateRagResponse \/ DoChat \/ Return

SpecRag == Init /\ [][NextRag]_vars

\* ------------------------------------------------------- ChunkingService
\* A text is the sequence of its characters.
MaxTextLen == 6
MaxPages == 3
MaxChunkSize == 4
MaxMinChunkSize == 2

Chars == {"a", ".", " ", "\n"}
Whitespace == {" ", "\n"}

\* ChunkingService(chunk_size, chunk_overlap, min_chunk_size)
Configs == {[chunk_size |-> cs, chunk_overlap |-> 1, min_chunk_size |-> m] :
               cs \in 3..MaxChunkSize, m \in 0..MaxMinChunkSize}

\* self.separators, in the order they are tried
Separators == << <<"\n", "\n">>, <<"\n">>, <<".", " ">>, <<"!", " ">>, <<"?", " ">>,
                 <<";", " ">>, <<",", " ">>, <<" ">>, <<>> >>

\* str.strip
RECURSIVE Lstrip(_)
Lstrip(s) == IF s # <<>> /\ Head(s) \in Whitespace THEN Lstrip(Tail(s)) ELSE s

RECURSIVE Rstrip(_)
Rstrip(s) ==
    IF s # <<>> /\ s[Len(s)] \in Whitespace THEN Rstrip(SubSeq(s, 1, Len(s) - 1)) ELSE s

Strip(s) == Rstrip(Lstrip(s))

\* sep occurs in s at position i
StartsWith(s, i, sep) ==
    /\ i + Len(sep) - 1 <= Len(s)
    /\ \A k \in 1..Len(sep) : s[i + k - 1] = sep[k]

\* `separator in text`: true of the empty separator
Contains(s, sep) == \E i \in 1..(Len(s) + 1) : StartsWith(s, i, sep)

\* str.split(sep) for a non-empty sep, from position i on with cur collected
RECURSIVE SplitFrom(_, _, _, _)
SplitFrom(s, sep, i, cur) ==
    IF i > Len(s) THEN <<cur>>
    ELSE IF StartsWith(s, i, sep)
         THEN <<cur>> \o SplitFrom(s, sep, i + Len(sep), <<>>)
         ELSE SplitFrom(s, sep, i + 1, Append(cur, s[i]))

Split(s, sep) == SplitFrom(s, sep, 1, <<>>)

\* sep.join(list)
RECURSIVE Join(_, _)
Join(list, sep) ==
    IF list = <<>> THEN <<>>
    ELSE IF Len(list) = 1 THEN list[1]
    ELSE list[1] \o sep \o Join(Tail(list), sep)

\* the first separator of self.separators that is in the text
FirstSeparator(text) ==
    Separators[CHOOSE k \in 1..Len(Separators) :
                  /\ Contains(text, Separators[k])
                  /\ \A j \in 1..(k - 1) : ~Contains(text, Separators[j])]

\* the part of a chunk that is not the overlap it was seeded with: all of
\* current_chunk, or what follows its first element
Region(current_chunk, seeded, separator) ==
    IF ~seeded THEN Join(current_chunk, separator)
    ELSE IF Len(current_chunk) = 1 THEN <<>>
    ELSE separator \o Join(Tail(current_chunk), separator)

\* DocumentChunk; region is not a field of it, it records Region
DocumentChunk(text, page_number, chunk_index, document_id, region) ==
    [text |-> text, page_number |-> page_number, chunk_index |-> chunk_index,
     document_id |-> document_id, region |-> region]

\* an append that keeps every candidate chunk, whatever its length
AppendChunkUnfiltered(chunks, current_chunk, seeded, env) ==
    LET chunk_text == Join(current_chunk, env.separator)
    IN  Append(chunks,
               [text |-> Strip(chunk_text), page_number |-> env.page_number,
                chunk_index |-> env.start_index + Len(chunks),
                document_id |-> env.document_id,
                region |-> chunk_text])

\* the `if len(chunk_text.strip()) >= self.min_chunk_size: chunks.append(...)`
\* of _split_text; env holds the call's arguments and the separator
AppendChunk(chunks, current_chunk, seeded, env) ==
    LET chunk_text == Join(current_chunk, env.separator)
    IN  IF Len(Strip(chunk_text)) >= env.cfg.min_chunk_size
        THEN Append(chunks,
                    DocumentChunk(Strip(chunk_text), env.page_number,
                                  env.start_index + Len(chunks), env.document_id,
                                  Region(current_chunk, seeded, env.separator)))
        ELSE chunks

\* the `for split in splits` loop of _split_text from splits[i] on; st holds
\* chunks, current_chunk and current_size, and seeded: current_chunk starts
\* with an overlap_text
RECURSIVE Rebuild(_, _, _, _)
Rebuild(splits, i, st, env) ==
    IF i > Len(splits) THEN st
    ELSE
      LET split == splits[i]
          split_size == Len(split) + Len(env.separator)
          current_chunk == st.current_chunk
      IN  IF st.current_size + split_size > env.cfg.chunk_size /\ current_chunk # <<>>
          THEN LET chunks == AppendChunk(st.chunks, current_chunk, st.seeded, env)
                   overlap_text ==
                       IF Len(current_chunk) >= 2
                       THEN Join(SubSeq(current_chunk, Len(current_chunk) - 1,
                                        Len(current_chunk)), env.separator)
                       ELSE <<>>
               IN  IF overlap_text # <<>>
                   THEN Rebuild(splits, i + 1,
                                [chunks |-> chunks,
                                 current_chunk |-> IF Strip(split) # <<>>
                                                   THEN <<overlap_text, split>>
                                                   ELSE <<overlap_text>>,
                                 current_size |-> Len(overlap_text) + split_size,
                                 seeded |-> TRUE], env)
                   ELSE Rebuild(splits, i + 1,
                                [chunks |-> chunks,
                                 current_chunk |-> IF Strip(split) # <<>>
                                                   THEN <<split>> ELSE <<>>,
                                 current_size |-> split_size,
                                 seeded |-> FALSE], env)
          ELSE IF Strip(split) # <<>>
               THEN Rebuild(splits, i + 1,
                            [st EXCEPT !.current_chunk = Append(current_chunk, split),
                                       !.current_size = st.current_size + split_size], env)
               ELSE Rebuild(splits, i + 1, st, env)

\* ChunkingService._split_text: the chunks, or raised when text.split("")
\* raises ValueError, which it does when the text is longer than chunk_size
\* and holds no other separator
SplitText(text, page_number, document_id, start_index, cfg) ==
    IF Len(text) <= cfg.chunk_size
    THEN [raised |-> FALSE,
          chunks |-> IF Len(Strip(text)) >= cfg.min_chunk_size
                     THEN <<DocumentChunk(Strip(text), page_number, start_index,
                                          document_id, text)>>
                     ELSE <<>>]
    ELSE LET separator == FirstSeparator(text)
             env == [separator |-> separator, page_number |-> page_number,
                     document_id |-> document_id, start_index |-> start_index,
                     cfg |-> cfg]
         IN  IF separator = <<>>
             THEN [raised |-> TRUE, chunks |-> <<>>]
             ELSE LET st == Rebuild(Split(text, separator), 1,
                                    [chunks |-> <<>>, current_chunk |-> <<>>,
                                     current_size |-> 0, seeded |-> FALSE], env)
                  IN  [raised |-> FALSE,
                       chunks |-> IF st.current_chunk # <<>>
                                  THEN AppendChunk(st.chunks, st.current_chunk,
                                                   st.seeded, env)
                                  ELSE st.chunks]

\* the fallback loop at the end of _split_text, from offset i on:
\* `for i in range(0, len(text), self.chunk_size - self.chunk_overlap)`.
\* No call reaches it: the separator list ends with "", which is in every text.
RECURSIVE SlidingWindowsFrom(_, _, _, _, _, _, _)
SlidingWindowsFrom(text, i, chunks, page_number, document_id, start_index, cfg) ==
    IF i >= Len(text) THEN chunks
    ELSE LET chunk_text == SubSeq(text, i + 1, Min(i + cfg.chunk_size, Len(text)))
             region == IF i = 0 THEN chunk_text
                       ELSE SubSeq(chunk_text, cfg.chunk_overlap + 1, Len(chunk_text))
             kept == IF Len(Strip(chunk_text)) >= cfg.min_chunk_size
                     THEN Append(chunks,
                                 DocumentChunk(Strip(chunk_text), page_number,
                                               start_index + Len(chunks), document_id,
                                               region))
                     ELSE chunks
         IN  SlidingWindowsFrom(text, i + cfg.chunk_size - cfg.chunk_overlap, kept,
                                page_number, document_id, start_index, cfg)

SlidingWindows(text, page_number, document_id, start_index, cfg) ==
    SlidingWindowsFrom(text, 0, <<>>, page_number, document_id, start_index, cfg)

\* a counter that moves by one per page
AdvanceByPage(chunk_index, page_chunks) == chunk_index + 1

\* `chunk_index += len(page_chunks)`
Advance(chunk_index, page_chunks) == chunk_index + Len(page_chunks)

\* the page loop of chunk_document from page page_num (0-based) on
RECURSIVE ChunkPagesFrom(_, _, _, _, _, _)
ChunkPagesFrom(pages, page_num, chunks, chunk_index, document_id, cfg) ==
    IF page_num >= Len(pages) THEN [raised |-> FALSE, chunks |-> chunks]
    ELSE LET text == pages[page_num + 1]
         IN  IF Strip(text) = <<>>
             THEN ChunkPagesFrom(pages, page_num + 1, chunks, chunk_index, document_id, cfg)
             ELSE LET split == SplitText(text, page_num + 1, document_id, chunk_index, cfg)
                  IN  IF split.raised THEN [raised |-> TRUE, chunks |-> <<>>]
                      ELSE ChunkPagesFrom(pages, page_num + 1, chunks \o split.chunks,
                                          Advance(chunk_index, split.chunks),
                                          document_id, cfg)

\* ChunkingService.chunk_document of a file with these page texts
ChunkDocumentPages(pages, document_id, cfg) ==
    ChunkPagesFrom(pages, 0, <<>>, 0, document_id, cfg)

\* page texts: blank, short, one chunk, several chunks, no separator at all
PageTexts == { <<" ">>,
               <<"a">>,
               <<"a", "a", "a">>,
               <<"a", "a", "a", " ", "a", " ", "a", "a">>,
               <<"a", "a", "a", "a", "a">> }

StartIndexes == {0, 1}

\* a call of _split_text
DoSplitText ==
    /\ Idle
    /\ \E text \in SeqsUpTo(Chars, MaxTextLen), cfg \in Configs, start_index \in StartIndexes :
          LET split == SplitText(text, 1, "d1", start_index, cfg)
          IN  ret' = [NoRet EXCEPT !.op = "split_text", !.doc = "d1", !.texts = <<text>>,
                                   !.k = start_index, !.cfg = cfg,
                                   !.out = split.chunks, !.err = split.raised]
    /\ UNCHANGED <<store, files, database, outside>>

\* a call of chunk_document
DoChunkDocument ==
    /\ Idle
    /\ \E pages \in SeqsUpTo(PageTexts, MaxPages), cfg \in Configs :
          LET chunked == ChunkDocumentPages(pages, "d1", cfg)
          IN  ret' = [NoRet EXCEPT !.op = "chunk_document", !.doc = "d1", !.texts = pages,
                                   !.cfg = cfg,
                                   !.out = chunked.chunks, !.err = chunked.raised]
    /\ UNCHANGED <<store, files, database, outside>>

NextChunk == DoSplitText \/ DoChunkDocument \/ Return

SpecChunk == Init /\ [][NextChunk]_vars

\* ------------------------------------------------- malformed configuration
\* ChunkingService.__init__: the arguments are stored as they come
ChunkingServiceInit(chunk_size, chunk_overlap, min_chunk_size) ==
    [chunk_size |-> chunk_size, chunk_overlap |-> chunk_overlap,
     min_chunk_size |-> min_chunk_size]

\* a ChunkingService is constructed, also with chunk_overlap >= chunk_size
DoConstruct ==
    /\ Idle
    /\ \E chunk_size \in 1..MaxChunkSize, chunk_overlap \in 0..(MaxChunkSize + 1),
          min_chunk_size \in 0..MaxMinChunkSize :
          ret' = [NoRet EXCEPT !.op = "construct",
                               !.cfg = ChunkingServiceInit(chunk_size, chunk_overlap,
                                                           min_chunk_size)]
    /\ UNCHANGED <<store, files, database, outside>>

\* query embeddings with fewer and with more components than the index has
WrongDimQueries == {<<1>>, <<1, 0, 0>>}

\* search_similar with any top_k, also zero and negative, and any query
DoSearchUnchecked ==
    /\ Idle
    /\ \E q \in QueryVectors \cup WrongDimQueries, k \in (-1)..MaxTopK,
          d \in DocIds \cup {NoDoc} : Search(q, k, d)
    /\ UNCHANGED <<files, database, outside>>

NextConfig == DoAddSmall \/ DoConstruct \/ DoSearchUnchecked \/ Return

SpecConfig == Init /\ [][NextConfig]_vars

\* --------------------------------------------- the requests on the event loop
\* The endpoints of main.py are coroutines of one asyncio event loop.  A
\* coroutine keeps the loop from the moment it is resumed until it awaits
\* something that suspends or returns; a call that is not awaited (or the
\* await of a coroutine that never suspends) does not give the loop away.
\*   process_document    awaits nothing: generate_embeddings_batch is called
\*                       in the coroutine itself, which holds the loop while
\*                       the model encodes
\*   search_documents    awaits nothing
\*   generate_rag_response   awaits search_documents (no suspension) and then
\*                       llm_provider.generate_text, which suspends
\*   delete_document_from_rag   is a plain function called by its endpoint
\* A task at "embedding" is inside generate_embeddings_batch and has the loop.
LoopFree == \A t \in TaskIds : tasks[t].pc # "embedding"

\* a request arrives and its coroutine is scheduled
Arrive(t) ==
    /\ tasks[t].pc = "free"
    /\ \/ \E d \in DocIds, pdf_path \in {"a.pdf", "b.pdf"} :
             tasks' = [tasks EXCEPT ![t] = [NoTask EXCEPT !.kind = "process", !.pc = "ready",
                                                          !.doc = d, !.pdf_path = pdf_path]]
       \/ \E kind \in {"search", "rag"}, query \in Texts, k \in {MaxTopK},
             d \in DocIds \cup {NoDoc} :
             tasks' = [tasks EXCEPT ![t] = [NoTask EXCEPT !.kind = kind, !.pc = "ready",
                                                          !.doc = d, !.query = query,
                                                          !.k = k]]
    /\ UNCHANGED <<store, files, database, ret, limiter>>

\* process_document is resumed and runs up to the call of
\* generate_embeddings_batch
StartProcess(t) ==
    /\ LoopFree
    /\ tasks[t].kind = "process" /\ tasks[t].pc = "ready"
    /\ Len(index) + Len(PdfChunkTexts(tasks[t].pdf_path)) <= MaxSnapVectors
    /\ next_uuid + Len(PdfChunkTexts(tasks[t].pdf_path)) <= MaxSnapVectors
    /\ tasks' = [tasks EXCEPT ![t].pc = "embedding"]
    /\ UNCHANGED <<store, files, database, ret, limiter>>

\* generate_embeddings_batch returns and process_document runs to its end
FinishProcess(t) ==
    /\ tasks[t].pc = "embedding"
    /\ ProcessDocument(tasks[t].doc, tasks[t].pdf_path, tasks[t].model_ok,
                       Len(PdfChunkTexts(tasks[t].pdf_path)))
    /\ tasks' = [tasks EXCEPT ![t] = NoTask]
    /\ UNCHANGED <<files, limiter>>

\* search_documents, resumed, runs to its end
RunSearch(t) ==
    /\ LoopFree
    /\ tasks[t].kind = "search" /\ tasks[t].pc = "ready"
    /\ SearchDocuments(tasks[t].query, tasks[t].k, tasks[t].doc, tasks[t].model_ok)
    /\ tasks' = [tasks EXCEPT ![t] = NoTask]
    /\ UNCHANGED <<files, limiter>>

\* generate_rag_response is resumed, searches, builds the prompt and awaits
\* llm_provider.generate_text
StartRag(t) ==
    /\ LoopFree
    /\ tasks[t].kind = "rag" /\ tasks[t].pc = "ready"
    /\ tasks' = [tasks EXCEPT ![t].pc = "awaiting",
                              ![t].search_results =
                                  SearchSimilar(index, chunk_metadata,
                                                GenerateEmbedding(tasks[t].query,
                                                                  tasks[t].model_ok),
                                                tasks[t].k, tasks[t].doc)]
    /\ UNCHANGED <<store, files, database, ret, limiter>>

\* the generator answers (or raises) and generate_rag_response builds its
\* result from the search_results it holds
ResumeRag(t) ==
    /\ LoopFree
    /\ tasks[t].pc = "awaiting"
    /\ \E gen_ok \in BOOLEAN :
          /\ ret' = RagResultOf(tasks[t].search_results, tasks[t].query, tasks[t].doc,
                                tasks[t].k, tasks[t].model_ok, gen_ok)
          /\ tasks' = [tasks EXCEPT ![t].pc = "done", ![t].sources = ret'.sources]
    /\ UNCHANGED <<store, files, database, limiter>>

\* the response of a finished generate_rag_response is sent
Respond(t) ==
    /\ tasks[t].pc = "done"
    /\ tasks' = [tasks EXCEPT ![t] = NoTask]
    /\ UNCHANGED <<store, files, database, ret, limiter>>

\* the delete endpoint runs delete_document_from_rag; `deleted` notes, for
\* each generate_rag_response that is suspended, the documents deleted since
DeleteWhileAwaiting(document_id) ==
    /\ LoopFree
    /\ DeleteDocumentFromRag(document_id, TRUE)
    /\ tasks' = [t \in TaskIds |->
                    IF tasks[t].pc = "awaiting"
                    THEN [tasks[t] EXCEPT !.deleted = @ \cup {document_id}]
                    ELSE tasks[t]]
    /\ UNCHANGED <<files, limiter>>

NextLoop ==
    \/ Idle /\ \E t \in TaskIds : Arrive(t)
    \/ Idle /\ \E t \in TaskIds : StartProcess(t)
    \/ Idle /\ \E t \in TaskIds : FinishProcess(t)
    \/ Idle /\ \E t \in TaskIds : RunSearch(t)
    \/ Idle /\ \E t \in TaskIds : StartRag(t)
    \/ Idle /\ \E t \in TaskIds : ResumeRag(t)
    \/ Idle /\ \E t \in TaskIds : Respond(t)
    \/ Idle /\ \E d \in DocIds : DeleteWhileAwaiting(d)
    \/ Return

SpecLoop == Init /\ [][NextLoop]_vars

\* ------------------------------------------------------------ RateLimiter
MaxRequests == 2        \* largest max_requests a limiter is constructed with
MaxWindowSeconds == 2   \* largest window_seconds
MaxBlockSeconds == 3    \* largest block_duration_seconds
MaxTime == 4            \* the clock stops here
MaxAccepted == 3        \* calls that may be accepted in all

\* RateLimiter.__init__
RateLimiterInit(max_requests, window_seconds, block_duration_seconds) ==
    [max_requests |-> max_requests, window_seconds |-> window_seconds,
     block_duration_seconds |-> block_duration_seconds]

\* f"{user_id}:{endpoint}"
Key(user_id, endpoint) == user_id \o ":" \o endpoint

\* a filter that lets a timestamp go one second early
InWindowShort(request_times, at) ==
    SelectSeq(request_times, LAMBDA req_time : at - req_time < limits.window_seconds - 1)

\* `[req_time for req_time in request_times if now - req_time < self.window_seconds]`
InWindow(request_times, at) ==
    SelectSeq(request_times, LAMBDA req_time : at - req_time < limits.window_seconds)

\* a dict without the key / with the key set
Without(dict, key) == [k \in DOMAIN dict \ {key} |-> dict[k]]
With(dict, key, value) ==
    [k \in DOMAIN dict \cup {key} |-> IF k = key THEN value ELSE dict[k]]

\* the list a dict of lists holds for the key, none when it lacks the key
TimesIn(dict, key) == IF key \in DOMAIN dict THEN dict[key] ELSE <<>>

\* self.requests[key] of the defaultdict(list)
RequestTimes(key) == TimesIn(requests, key)

\* check_rate_limit: what it leaves in self.requests and self.blocked_until,
\* whether it raised HTTP 429 and why, and the number it returned
CheckRateLimit(user_id, endpoint) ==
    LET key == Key(user_id, endpoint)
        request_times == InWindow(RequestTimes(key), now)
        unblocked == Without(blocked_until, user_id)
    IN  IF user_id \in DOMAIN blocked_until /\ now < blocked_until[user_id]
        THEN [requests |-> requests, blocked_until |-> blocked_until,
              raised |-> TRUE, reason |-> "blocked",
              remaining |-> blocked_until[user_id] - now]
        ELSE IF Len(request_times) >= limits.max_requests
        THEN [requests |-> With(requests, key, request_times),
              blocked_until |-> With(unblocked, user_id,
                                     now + limits.block_duration_seconds),
              raised |-> TRUE, reason |-> "exceeded",
              remaining |-> 0]
        ELSE [requests |-> With(requests, key, Append(request_times, now)),
              blocked_until |-> unblocked,
              raised |-> FALSE, reason |-> "ok",
              remaining |-> limits.max_requests - (Len(request_times) + 1)]

\* how often the timestamp occurs in the list
Occurrences(request_times, at) ==
    Cardinality({i \in 1..Len(request_times) : request_times[i] = at})

\* the calls accepted so far
TotalAccepted ==
    Cardinality({call \in Users \X Endpoints \X (1..MaxAccepted) :
                    call[3] <= Len(accepted[call[1], call[2]])})

\* a limiter is constructed
DoRateLimiter ==
    /\ limits = NoLimits
    /\ \E max_requests \in 1..MaxRequests, window_seconds \in 1..MaxWindowSeconds,
          block_duration_seconds \in 1..MaxBlockSeconds :
          limits' = RateLimiterInit(max_requests, window_seconds, block_duration_seconds)
    /\ UNCHANGED <<store, files, database, ret, loop,
                   requests, blocked_until, now, accepted, blocks, verdict>>

\* a call of check_rate_limit.  accepted, blocks and verdict keep what the
\* call did: whether it returned, whether it left its timestamp in the list,
\* whether it fell before the end of the last block imposed on the user.
DoCheckRateLimit ==
    /\ limits # NoLimits
    /\ \E user_id \in Users, endpoint \in Endpoints :
          LET result == CheckRateLimit(user_id, endpoint)
              key == Key(user_id, endpoint)
          IN  /\ result.raised \/ TotalAccepted < MaxAccepted
              /\ requests' = result.requests
              /\ blocked_until' = result.blocked_until
              /\ accepted' = IF result.raised THEN accepted
                             ELSE [accepted EXCEPT ![user_id, endpoint] = Append(@, now)]
              /\ blocks' = IF result.reason = "exceeded"
                           THEN [blocks EXCEPT ![user_id] =
                                                  now + limits.block_duration_seconds]
                           ELSE blocks
              /\ verdict' = [user_id |-> user_id, endpoint |-> endpoint, at |-> now,
                             raised |-> result.raised, reason |-> result.reason,
                             remaining |-> result.remaining,
                             recorded |-> Occurrences(TimesIn(result.requests, key), now)
                                             > Occurrences(RequestTimes(key), now),
                             in_block |-> now < blocks[user_id]]
    /\ UNCHANGED <<store, files, database, ret, loop, limits, now>>

\* one pass of _cleanup_loop's body
DoCleanup ==
    /\ limits # NoLimits
    /\ LET cleaned == [key \in DOMAIN requests |-> InWindow(requests[key], now)]
       IN  requests' = [key \in {k \in DOMAIN requests : cleaned[k] # <<>>} |-> cleaned[key]]
    /\ blocked_until' = [user_id \in {u \in DOMAIN blocked_until :
                                         ~(now >= blocked_until[u])} |->
                            blocked_until[user_id]]
    /\ UNCHANGED <<store, files, database, ret, loop,
                   limits, now, accepted, blocks, verdict>>

\* time passes
Tick ==
    /\ now < MaxTime
    /\ now' = now + 1
    /\ UNCHANGED <<store, files, database, ret, loop,
                   limits, requests, blocked_until, accepted, blocks, verdict>>

NextLimiter == DoRateLimiter \/ DoCheckRateLimit \/ DoCleanup \/ Tick

SpecLimiter == Init /\ [][NextLimiter]_vars

\* ======================================================================
\* Properties of the VectorStore, checked under Spec
\* ======================================================================
Positions == 1..Len(chunk_metadata)
IsSearch == ret.op = "search"

\* the entries a search of document d may return: those that carry d
EntriesOf(meta, d) == {i \in 1..Len(meta) : meta[i].document_id = d}
LiveEntriesOf(meta, d) == {i \in EntriesOf(meta, d) : ~meta[i].deleted}

\* C1: no search returns an entry whose metadata is marked deleted (and so
\* none of a document that remove_document has removed).
C1_DeletedNeverReturned ==
    IsSearch => \A i \in 1..Len(ret.out) : ~chunk_metadata[ret.out[i].pos + 1].deleted

\* C3, as claimed: a search scoped to document d with top_k = k returns k
\* results of d whenever d has at least k non-deleted entries in the index.
C3_AllKFound ==
    (IsSearch /\ ret.doc # NoDoc /\ ret.k >= 1
        /\ Cardinality(LiveEntriesOf(chunk_metadata, ret.doc)) >= ret.k)
    => /\ Len(ret.out) = ret.k
       /\ \A i \in 1..Len(ret.out) : ret.out[i].document_id = ret.doc

\* the internal indices of the n entries nearest to the query, n capped at the index size
Nearest(q, n) ==
    LET hits == IndexSearch(index, Normalize(q), Min(n, Len(index)))
    IN  {hits[i].idx + 1 : i \in 1..Len(hits)}

\* C3, amended: a search scoped to document d with top_k = k returns k results
\* of d whenever at least k non-deleted entries of d are among the
\* min(3k, index size) entries nearest to the query.
C3_AllKFoundInWindow ==
    (IsSearch /\ ret.doc # NoDoc /\ ret.k >= 1
        /\ Cardinality(LiveEntriesOf(chunk_metadata, ret.doc)
                          \cap Nearest(ret.q, 3 * ret.k)) >= ret.k)
    => /\ Len(ret.out) = ret.k
       /\ \A i \in 1..Len(ret.out) : ret.out[i].document_id = ret.doc

\* a scoped search that found its k results although an entry of another
\* document is nearer to the query than one of those results
C3_Witness ==
    /\ IsSearch /\ ret.doc # NoDoc /\ ret.k >= 2
    /\ Len(ret.out) = ret.k
    /\ \A i \in 1..Len(ret.out) : ~chunk_metadata[ret.out[i].pos + 1].deleted
    /\ \E i \in 1..Len(ret.out), j \in Positions :
          /\ chunk_metadata[j].document_id # ret.doc
          /\ Before(index, Normalize(ret.q), j - 1, ret.out[i].pos)

\* C4: a search returns at most top_k results.
C4_SearchBound == IsSearch => Len(ret.out) <= ret.k

\* a search that returned exactly top_k results and left a matching entry out
C4_Witness ==
    /\ IsSearch /\ ret.k >= 1 /\ Len(ret.out) = ret.k
    /\ ret.doc # NoDoc
    /\ Cardinality(EntriesOf(chunk_metadata, ret.doc)) > ret.k

\* C5: the results of a search are in descending order of similarity score.
C5_DescendingScores ==
    IsSearch => \A i, j \in 1..Len(ret.out) :
                    i < j => ~ScoreLess(ret.out[i].similarity_score,
                                        ret.out[j].similarity_score)

\* a scoped search with two results of different scores, the nearer one added
\* later, and an entry of another document ranked between them
C5_Witness ==
    /\ IsSearch /\ ret.doc # NoDoc /\ Len(ret.out) >= 2
    /\ ScoreLess(ret.out[2].similarity_score, ret.out[1].similarity_score)
    /\ ret.out[1].pos > ret.out[2].pos
    /\ \E j \in Positions :
          /\ chunk_metadata[j].document_id # ret.doc
          /\ Before(index, Normalize(ret.q), ret.out[1].pos, j - 1)
          /\ Before(index, Normalize(ret.q), j - 1, ret.out[2].pos)

\* C6: add_embeddings with lists of different lengths raises.
C6_MismatchRaises == (ret.op = "add" /\ ret.ne # ret.nd) => ret.err

\* the identity of an entry: everything but its tombstone flag
Identity(m) == [chunk_id |-> m.chunk_id, document_id |-> m.document_id,
                chunk_index |-> m.chunk_index]

\* C7: an add of n vectors returns the n indices ntotal, ntotal+1, ... in input
\* order, all of them new; no step shrinks the index or moves an entry.
C7_StableContiguousIndices ==
    [][ /\ Len(index') >= Len(index)
        /\ Len(chunk_metadata') >= Len(chunk_metadata)
        /\ \A i \in 1..Len(index) : index'[i] = index[i]
        /\ \A i \in 1..Len(chunk_metadata) :
              Identity(chunk_metadata'[i]) = Identity(chunk_metadata[i])
        /\ (ret'.op = "add" /\ ~ret'.err /\ ret'.ne = ret'.nd)
           => /\ ret'.out = [i \in 1..ret'.ne |-> Len(index) + i - 1]
              /\ Len(index') = Len(index) + ret'.ne
              /\ Len(chunk_metadata') = Len(index')
              /\ \A i \in 1..Len(ret'.out) : ~chunk_metadata'[ret'.out[i] + 1].deleted
      ]_vars

\* an add of two vectors to an index that holds tombstoned entries
C7_Witness ==
    /\ ret.op = "add" /\ Len(ret.out) = 2 /\ ret.out[1] >= 2
    /\ \E i \in Positions : chunk_metadata[i].deleted

\* C8: remove_document(d) tombstones every entry of d, returns how many it
\* tombstoned, and changes neither the number of vectors nor any other entry.
C8_RemoveMarksAndCounts ==
    [][ ret'.op = "remove"
        => /\ index' = index
           /\ Len(chunk_metadata') = Len(chunk_metadata)
           /\ \A i \in 1..Len(chunk_metadata) :
                 /\ Identity(chunk_metadata'[i]) = Identity(chunk_metadata[i])
                 /\ chunk_metadata[i].document_id = ret'.doc => chunk_metadata'[i].deleted
                 /\ chunk_metadata[i].document_id # ret'.doc
                       => chunk_metadata'[i] = chunk_metadata[i]
           /\ ret'.count = Cardinality({i \in 1..Len(chunk_metadata) :
                                ~chunk_metadata[i].deleted /\ chunk_metadata'[i].deleted})
      ]_vars

\* a removal of two entries of a document that was removed and added before,
\* in an index that also holds a live entry of another document
C8_Witness ==
    /\ ret.op = "remove" /\ ret.count = 2
    /\ Cardinality(EntriesOf(chunk_metadata, ret.doc)) > 2
    /\ \E i \in Positions : chunk_metadata[i].document_id # ret.doc /\ ~chunk_metadata[i].deleted

\* ======================================================================
\* Properties of process_document, checked under SpecIngest
\* ======================================================================
\* C2: processing a document again does not duplicate it: no search returns
\* two hits that are the same chunk (same document_id and chunk_index).
C2_NoDuplicateHits ==
    IsSearch => \A i, j \in 1..Len(ret.out) :
                    (i # j /\ ret.out[i].document_id = ret.out[j].document_id)
                    => ret.out[i].chunk_index # ret.out[j].chunk_index

\* ======================================================================
\* Properties of save and load, checked under SpecPersist and SpecTorn
\* ======================================================================
SearchInputs == QueryVectors \X TopKs \X (DocIds \cup {NoDoc})

\* C9: after load, every search gives what it gave on the index that was
\* saved, and the restored entries carry the tombstone flags they had.
C9_RoundTrip ==
    (ret.op = "load" /\ ~ret.err)
    => /\ \A in \in SearchInputs :
             SearchSimilar(index, chunk_metadata, in[1], in[2], in[3])
               = SearchSimilar(saved.index, saved.chunk_metadata, in[1], in[2], in[3])
       /\ Len(chunk_metadata) = Len(saved.chunk_metadata)
       /\ \A i \in 1..Len(chunk_metadata) :
             chunk_metadata[i].deleted = saved.chunk_metadata[i].deleted

\* a load that restored two entries of which one is tombstoned
C9_Witness ==
    /\ ret.op = "load" /\ ~ret.err
    /\ Len(index) = 2 /\ Len(chunk_metadata) = 2
    /\ \E i, j \in Positions : chunk_metadata[i].deleted /\ ~chunk_metadata[j].deleted

\* C10: load of a snapshot whose vector file and metadata file hold different
\* numbers of entries raises and leaves no store with mismatched lengths.
C10_LoadFailsFast ==
    (ret.op = "load" /\ disk.faiss.present /\ disk.meta.state = "ok"
        /\ disk.faiss.ntotal # Len(disk.meta.chunk_metadata))
    => /\ ret.err
       /\ Len(index) = Len(chunk_metadata)

\* ======================================================================
\* Properties of process_document and delete_document_from_rag under
\* failures, checked under SpecFaults
\* ======================================================================
IsProcess == ret.op = "process"
IsDelete == ret.op = "delete"

\* the steps were entered in their order and the last entry is an outcome
InStepOrder(trace) ==
    /\ Len(trace) >= 2
    /\ \A i \in 1..(Len(trace) - 1) : i <= Len(Steps) /\ trace[i] = Steps[i]
    /\ trace[Len(trace)] \in {"indexed", "failed"}
    /\ trace[Len(trace)] = "indexed" => Len(trace) = Len(Steps) + 1

\* the result names the step that failed: by a key of its own, or by the
\* one fixed message that is about chunking
ReportsStage(keys) == "stage" \in keys \/ keys = NoChunksKeys

\* the result carries the counts of what was completed
ReportsCounts(keys) == "chunks_created" \in keys

\* C11: process_document goes through chunking, embedding, storing and
\* indexing in that order and ends in exactly one outcome, indexed with
\* success true or failed with success false; a failed result names the
\* step that failed and carries the counts completed so far.
C11_StagesAndFailureReport ==
    IsProcess =>
        /\ InStepOrder(ret.trace)
        /\ (ret.trace[Len(ret.trace)] = "indexed") <=> ~ret.err
        /\ ret.err => ReportsStage(ret.keys) /\ ReportsCounts(ret.keys)

\* the rows and the tracked entries a document has
RowsOf(rows, d) == {i \in 1..Len(rows) : rows[i].document_id = d}
TrackedOf(dc, d) == IF d \in DOMAIN dc THEN dc[d] ELSE <<>>

IsEmbed == ret.op \in {"embed", "embed_batch"}

\* C15: generate_embedding and generate_embeddings_batch hand no empty or
\* whitespace-only text to the model, and give such a text the zero vector.
C15_BlankNeverEncoded ==
    IsEmbed =>
        /\ \A j \in 1..Len(ret.encoded) : ~IsBlank(ret.encoded[j])
        /\ \A i \in 1..Len(ret.texts) :
              (IsBlank(ret.texts[i]) /\ i <= Len(ret.out)) => ret.out[i] = ZeroVector

\* a batch of blank and non-blank texts of which the model got some
C15_Witness ==
    /\ ret.op = "embed_batch" /\ ret.model_ok
    /\ \E i, j \in 1..Len(ret.texts) : IsBlank(ret.texts[i]) /\ ~IsBlank(ret.texts[j])
    /\ ret.encoded # <<>>

\* C16: generate_embeddings_batch returns one vector per input text in the
\* input's order: at position i the zero vector when texts[i] is blank and,
\* the model having answered, the embedding of texts[i] when it is not.
C16_OnePerInputInOrder ==
    ret.op = "embed_batch" =>
        /\ Len(ret.out) = Len(ret.texts)
        /\ \A i \in 1..Len(ret.texts) :
              /\ IsBlank(ret.texts[i]) => ret.out[i] = ZeroVector
              /\ (~IsBlank(ret.texts[i]) /\ ret.model_ok)
                    => ret.out[i] = Normalize(Encode(ret.texts[i]))

\* a batch with a blank text before two different non-blank ones
C16_Witness ==
    /\ ret.op = "embed_batch" /\ ret.model_ok /\ Len(ret.texts) = 3
    /\ IsBlank(ret.texts[1])
    /\ ~IsBlank(ret.texts[2]) /\ ~IsBlank(ret.texts[3])
    /\ ret.out[2] # ret.out[3]

\* C17: when the model raises, generate_embedding and
\* generate_embeddings_batch raise nothing and return zero vectors, the
\* batch one per input text; process_document goes on and indexes the
\* document with the vectors it got.
C17_ModelFailureGivesZeros ==
    /\ (IsEmbed /\ ~ret.model_ok) =>
          /\ ~ret.err
          /\ Len(ret.out) = Len(ret.texts)
          /\ \A i \in 1..Len(ret.out) : ret.out[i] = ZeroVector
    /\ (IsProcess /\ ~ret.model_ok /\ ret.count > 0) =>
          /\ ~ret.err
          /\ Len(ret.out) = ret.count
          /\ \A i \in 1..Len(ret.out) :
                /\ ret.out[i] + 1 <= Len(index)
                /\ index[ret.out[i] + 1] = ZeroVector

\* a document of two chunks indexed although the model raised, next to
\* entries of an earlier run in which it did not
C17_Witness ==
    /\ IsProcess /\ ~ret.model_ok /\ ~ret.err /\ Len(ret.out) >= 2
    /\ \E i \in 1..Len(index) : index[i] # ZeroVector

\* ======================================================================
\* Properties of generate_rag_response, checked under SpecRag
\* ======================================================================
IsRag == ret.op = "rag"

C13_GeneratorFailureIsUserSafe ==
    (ret.op \in {"rag", "chat"} /\ ~ret.gen_ok) =>
        /\ ~ret.err
        /\ "success" \in ret.keys /\ ~ret.success
        /\ \A i \in 1..Len(ret.response) : ret.response[i] # "str(e)"
        /\ ret.op = "rag" => "error" \in ret.keys

\* ======================================================================
\* Properties of the chunker, checked under SpecChunk
\* ======================================================================
IsSplitText == ret.op = "split_text"
IsChunkDocument == ret.op = "chunk_document"

\* C18: the chunks chunk_document returns carry chunk_index 0, 1, 2, ... in
\* the order returned, without gap or repeat, across pages, blank pages and
\* chunks dropped for being shorter than min_chunk_size.
C18_ChunkIndexContiguous ==
    IsChunkDocument => \A i \in 1..Len(ret.out) : ret.out[i].chunk_index = i - 1

\* the chunks of page number n, and the number the page gives when none is
\* dropped for its size
ChunksOfPage(chunks, n) == {i \in 1..Len(chunks) : chunks[i].page_number = n}
CandidatesOfPage(pages, n, cfg) ==
    Len(SplitText(pages[n], n, "d1", 0, [cfg EXCEPT !.min_chunk_size = 0]).chunks)

\* a document with a blank page between two pages that give chunks, the
\* first of them after one of its chunks was dropped
C18_Witness ==
    /\ IsChunkDocument /\ ~ret.err /\ Len(ret.texts) = 3
    /\ Strip(ret.texts[2]) = <<>>
    /\ ChunksOfPage(ret.out, 1) # {} /\ ChunksOfPage(ret.out, 3) # {}
    /\ Cardinality(ChunksOfPage(ret.out, 1)) < CandidatesOfPage(ret.texts, 1, ret.cfg)

\* the tokens the text falls into at the separator _split_text chooses
Tokens(text) == Split(text, FirstSeparator(text))

\* C19: every chunk of _split_text is at most chunk_size characters long,
\* unless a single token between two occurrences of the chosen separator is
\* itself longer than chunk_size.
C19_ChunkSizeBound ==
    (IsSplitText /\ ~ret.err) =>
        \A i \in 1..Len(ret.out) :
            \/ Len(ret.out[i].text) <= ret.cfg.chunk_size
            \/ \E t \in 1..Len(Tokens(ret.texts[1])) :
                  Len(Tokens(ret.texts[1])[t]) > ret.cfg.chunk_size

\* a text without its whitespace
NoWhitespace(s) == SelectSeq(s, LAMBDA c : c \notin Whitespace)

\* the non-overlap regions of the chunks, one after the other
RECURSIVE ConcatRegions(_)
ConcatRegions(chunks) ==
    IF chunks = <<>> THEN <<>> ELSE Head(chunks).region \o ConcatRegions(Tail(chunks))

\* C20: the non-overlap regions of the chunks of _split_text, one after the
\* other, give the page text back up to whitespace: nothing of it is lost.
C20_RegionsCoverText ==
    (IsSplitText /\ ~ret.err) =>
        NoWhitespace(ConcatRegions(ret.out)) = NoWhitespace(ret.texts[1])

\* the chunks a call gave for the page text that chunk i comes from
SamePage(chunks, i) == {j \in 1..Len(chunks) : chunks[j].page_number = chunks[i].page_number}

\* C21: no chunk of the chunker has a trimmed text shorter than
\* min_chunk_size, unless it is the only chunk of its page.
C21_MinSizeFilter ==
    (IsSplitText \/ IsChunkDocument) =>
        \A i \in 1..Len(ret.out) :
            \/ Len(Strip(ret.out[i].text)) >= ret.cfg.min_chunk_size
            \/ SamePage(ret.out, i) = {i}

\* a page that gave chunks after a shorter candidate of it was dropped
C21_Witness ==
    /\ IsSplitText /\ ~ret.err /\ ret.cfg.min_chunk_size > 0
    /\ Len(ret.out) >= 2
    /\ Len(ret.out) < Len(SplitText(ret.texts[1], 1, "d1", ret.k,
                                    [ret.cfg EXCEPT !.min_chunk_size = 0]).chunks)

\* the text holds none of the non-empty separators
Dense(text) == \A k \in 1..(Len(Separators) - 1) : ~Contains(text, Separators[k])

\* C22: for a text longer than chunk_size that holds none of the non-empty
\* separators, _split_text raises nothing and returns the sliding windows
\* of chunk_size characters, one every chunk_size - chunk_overlap characters.
C22_DenseTextFallsBack ==
    (IsSplitText /\ Dense(ret.texts[1]) /\ Len(ret.texts[1]) > ret.cfg.chunk_size) =>
        /\ ~ret.err
        /\ ret.out = SlidingWindows(ret.texts[1], 1, "d1", ret.k, ret.cfg)

\* ======================================================================
\* Properties of malformed input, checked under SpecConfig
\* ======================================================================
\* C23: malformed configuration is rejected when it is given: constructing
\* a chunker with chunk_overlap >= chunk_size fails, and so does a search
\* with top_k <= 0.
C23_MalformedConfigRejected ==
    /\ (ret.op = "construct" /\ ret.cfg.chunk_overlap >= ret.cfg.chunk_size) => ret.err
    /\ (IsSearch /\ ret.k <= 0) => ret.err

\* C24: a search whose query vector has not the index's dimension raises
\* to the caller (stated here for a store that holds vectors: an empty one
\* returns [] before it looks at the query).
C24_DimensionMismatchRaises ==
    (IsSearch /\ Len(index) > 0 /\ Len(ret.q) # Len(ZeroVector)) => ret.err

\* ======================================================================
\* Properties of the store's bookkeeping
\* ======================================================================
\* C26: in every state a search, a remove_document or another add may see,
\* also after a call that failed part-way, there are as many metadata
\* records as vectors in the index (record i describing vector i).
\* Checked under SpecTorn.
C26_MetadataPairsVectors == Len(chunk_metadata) = Len(index)

\* the internal indices the tracking map lists for d
TrackedSet(dc, d) == {TrackedOf(dc, d)[j] : j \in 1..Len(TrackedOf(dc, d))}

\* C27: after any sequence of add_embeddings and remove_document calls the
\* tracking map lists for each document exactly the positions of the
\* entries that carry its id and are not deleted, each once; a document
\* without such entries is not tracked; get_stats counts the tracked
\* documents and their lists.  Checked under SpecStats.
C27_TrackingMatchesLiveEntries ==
    /\ \A d \in DocIds :
          /\ TrackedSet(document_chunks, d) = {i - 1 : i \in LiveEntriesOf(chunk_metadata, d)}
          /\ Len(TrackedOf(document_chunks, d)) = Cardinality(TrackedSet(document_chunks, d))
          /\ LiveEntriesOf(chunk_metadata, d) = {} => d \notin DOMAIN document_chunks
    /\ ret.op = "stats" =>
          LET stats == ret.out[1]
              live == {d \in DocIds : LiveEntriesOf(chunk_metadata, d) # {}}
          IN  /\ stats.num_documents = Cardinality(live)
              /\ DOMAIN stats.chunks_per_document = live
              /\ \A d \in live : stats.chunks_per_document[d]
                                     = Cardinality(LiveEntriesOf(chunk_metadata, d))
              /\ stats.total_vectors = Len(index)

\* get_stats after a document was removed and added again, next to another
C27_Witness ==
    /\ ret.op = "stats" /\ ret.out[1].num_documents = 2
    /\ \E d \in DocIds :
          /\ LiveEntriesOf(chunk_metadata, d) # {}
          /\ EntriesOf(chunk_metadata, d) # LiveEntriesOf(chunk_metadata, d)

\* C28: after every process_document and delete_document_from_rag call,
\* failed ones too, a document has as many chunk rows as it has entries in
\* the index that are not deleted.  Checked under SpecFaults.
C28_RowsMatchLiveVectors ==
    \A d \in DocIds :
        Cardinality(RowsOf(chunk_rows, d)) = Cardinality(LiveEntriesOf(chunk_metadata, d))

\* ======================================================================
\* Properties of the requests on the event loop, checked under SpecLoop
\* ======================================================================
\* C25, as claimed: while a process_document is inside its batch embedding,
\* a search_documents or generate_rag_response that is ready to run can run.
C25_SearchRunsDuringEmbedding ==
    \A p \in TaskIds, t \in TaskIds :
        (/\ tasks[p].pc = "embedding"
         /\ tasks[t].pc = "ready"
         /\ tasks[t].kind \in {"search", "rag"})
        => ENABLED (RunSearch(t) \/ StartRag(t))

\* C29, as claimed: the sources generate_rag_response returns hold no entry
\* of a document whose delete_document_from_rag completed while it was
\* suspended awaiting the generator.
C29_NoSourceOfDeletedDocument ==
    \A t \in TaskIds :
        tasks[t].pc = "done" =>
            \A i \in 1..Len(tasks[t].sources) :
                tasks[t].sources[i].document_id \notin tasks[t].deleted

\* ======================================================================
\* Properties of the RateLimiter, checked under SpecLimiter
\* ======================================================================
\* the accepted calls of a user on an endpoint that fall in [from, from + window_seconds)
AcceptedInWindow(user_id, endpoint, from) ==
    {i \in 1..Len(accepted[user_id, endpoint]) :
        /\ from <= accepted[user_id, endpoint][i]
        /\ accepted[user_id, endpoint][i] < from + limits.window_seconds}

\* C30: in no window of window_seconds does one user have more than
\* max_requests accepted requests on one endpoint, and a call made before the
\* end of the block imposed on its user is rejected and leaves no timestamp.
C30_RateLimitHolds ==
    /\ \A user_id \in Users, endpoint \in Endpoints, from \in 0..MaxTime :
          Cardinality(AcceptedInWindow(user_id, endpoint, from)) <= limits.max_requests
    /\ verdict.in_block => (verdict.raised /\ ~verdict.recorded)

\* a user at the limit on an endpoint, and a call rejected during their block
C30_Witness ==
    /\ verdict.in_block /\ verdict.reason = "blocked"
    /\ Len(accepted[verdict.user_id, verdict.endpoint]) > limits.max_requests
    /\ Cardinality(AcceptedInWindow(verdict.user_id, verdict.endpoint,
                                    verdict.at - limits.window_seconds))
          = limits.max_requests

====
